---- MODULE Spec2Model ----
(***************************************************************************)
(* Bill-management agent: the two-tier model fallback (ModelManager), the  *)
(* lenient JSON extractor (extract_json_from_response) and the bill        *)
(* workflow (BillProcessor.process_bill) with its persistence calls.       *)
(*                                                                         *)
(* Texts are sequences of tokens.  A token is one character of the reply   *)
(* ("{", "}", " ", the prose character "x", the one-digit scalar "7") or a *)
(* multi-character unit: the fence marker "fence" (three backticks), the   *)
(* tag "json", or a field atom standing for one complete  "key": value     *)
(* member of a JSON object.  Confidence scores are integers in hundredths  *)
(* (0.5 is 50).                                                            *)
(***************************************************************************)
EXTENDS Integers, Sequences, FiniteSets, TLC

(***************************************************************************)
(* Python dictionaries are functions whose DOMAIN is the set of keys       *)
(* present; d.get(k, default) is Get.                                      *)
(***************************************************************************)
EmptyDict == <<>>

Get(d, k, default) == IF k \in DOMAIN d THEN d[k] ELSE default

Range(s) == {s[i] : i \in DOMAIN s}

(***************************************************************************)
(* Configuration (src/config/model_config.py)                              *)
(***************************************************************************)
MIN_CONFIDENCE_SCORE == 50

EXPENSE_CATEGORIES ==
    {"groceries", "dining", "utilities", "shopping", "entertainment",
     "uncategorized"}

DEFAULT_VISION_MODEL == "openrouter_gemini"

FALLBACK_VISION_MODEL == "groq_llama_scout"

MODEL_PROVIDERS ==
    [openrouter_gemini |-> [provider |-> "openrouter",
                            model |-> "google/gemini-2.5-flash",
                            api_key_env |-> "OPENROUTER_API_KEY"],
     groq_llama_scout  |-> [provider |-> "groq",
                            model |-> "meta-llama/llama-4-scout-17b-16e-instruct",
                            api_key_env |-> "GROQ_API_KEY"]]

(***************************************************************************)
(* Field atoms: the members a reply's JSON object is built from.           *)
(***************************************************************************)
Milk == [description |-> "Milk", amount |-> 350, category |-> "groceries",
         confidence |-> 95]

\* Line items as a provider may return them: a category outside
\* EXPENSE_CATEGORIES, no category at all and a confidence above 1.
Taxi == [description |-> "Taxi", amount |-> 1200, category |-> "travel",
         confidence |-> 95]

Gum == [description |-> "Gum", amount |-> 100, confidence |-> 120]

FieldAtoms ==
    {"M", "Q30", "Q49", "Q50", "Q90", "Q150", "Q_", "I0", "I1", "I2", "I3", "S"}

FieldKey(a) ==
    CASE a = "M" -> "merchant_name"
      [] a \in {"Q30", "Q49", "Q50", "Q90", "Q150", "Q_"} -> "quality_assessment"
      [] a \in {"I0", "I1", "I2", "I3"} -> "line_items"
      [] a = "S" -> "summary"

FieldVal(a) ==
    CASE a = "M" -> "Acme"
      [] a = "Q30" -> [confidence_score |-> 30, overall_quality |-> "poor"]
      [] a = "Q49" -> [confidence_score |-> 49, overall_quality |-> "poor"]
      [] a = "Q50" -> [confidence_score |-> 50, overall_quality |-> "fair"]
      [] a = "Q90" -> [confidence_score |-> 90, overall_quality |-> "excellent"]
      [] a = "Q150" -> [confidence_score |-> 150, overall_quality |-> "excellent"]
      [] a = "Q_" -> [overall_quality |-> "unknown"]
      [] a = "I0" -> <<>>
      [] a = "I1" -> <<Milk>>
      [] a = "I2" -> <<Milk, Taxi>>
      [] a = "I3" -> <<Gum>>
      [] a = "S" -> [total_amount |-> 350, item_count |-> 1]

\* Number of characters a token stands for: 1, or more than 1.
CharLen(tok) == IF tok \in {"{", "}", " ", "x", "7"} THEN 1 ELSE 2

(***************************************************************************)
(* str.strip(), str.find(), str.rfind() on token sequences.  Indexes are   *)
(* 1-based and 0 is Python's -1 (not found).                               *)
(***************************************************************************)
RECURSIVE LStrip(_)
LStrip(s) == IF s # <<>> /\ Head(s) = " " THEN LStrip(Tail(s)) ELSE s

RECURSIVE RStrip(_)
RStrip(s) ==
    IF s # <<>> /\ s[Len(s)] = " " THEN RStrip(SubSeq(s, 1, Len(s) - 1)) ELSE s

Strip(s) == RStrip(LStrip(s))

Find(s, tok, from) ==
    LET hits == {i \in from..Len(s) : s[i] = tok}
    IN  IF hits = {} THEN 0 ELSE CHOOSE i \in hits : \A j \in hits : i <= j

RFind(s, tok) ==
    LET hits == {i \in 1..Len(s) : s[i] = tok}
    IN  IF hits = {} THEN 0 ELSE CHOOSE i \in hits : \A j \in hits : i >= j

\* response.find(fence + "json"): the fence marker immediately followed by the tag.
FindTagged(s) ==
    LET hits == {i \in 1..(Len(s) - 1) : s[i] = "fence" /\ s[i + 1] = "json"}
    IN  IF hits = {} THEN 0 ELSE CHOOSE i \in hits : \A j \in hits : i <= j

\* response[start:end] where end came from find(): when find() returned -1
\* the slice stops one character before the end of the text, which cuts a
\* multi-character last token down to a prose residue.
SliceTo(s, start, end) ==
    IF end # 0 THEN SubSeq(s, start, end - 1)
    ELSE IF Len(s) < start THEN <<>>
    ELSE SubSeq(s, start, Len(s) - 1)
            \o (IF CharLen(s[Len(s)]) > 1 THEN <<"x">> ELSE <<>>)

(***************************************************************************)
(* json.loads: surrounding whitespace is ignored; the document is a scalar *)
(* or an object  { member* } ; a repeated key keeps its last value.        *)
(***************************************************************************)
JSONDecodeError == [status |-> "JSONDecodeError"]

ValueError == [status |-> "ValueError"]

Members(s) == SelectSeq(s, LAMBDA tok : tok # " ")

LastWith(ms, k) ==
    ms[CHOOSE i \in DOMAIN ms :
          /\ FieldKey(ms[i]) = k
          /\ \A j \in DOMAIN ms : FieldKey(ms[j]) = k => j <= i]

json_loads(s) ==
    LET t == Strip(s) IN
    IF t = <<"7">> THEN [status |-> "ok", type |-> "int"]
    ELSE IF /\ Len(t) >= 2
            /\ t[1] = "{"
            /\ t[Len(t)] = "}"
            /\ \A i \in 2..(Len(t) - 1) : t[i] \in FieldAtoms \cup {" "}
         THEN LET ms == Members(SubSeq(t, 2, Len(t) - 1))
                  keys == {FieldKey(ms[i]) : i \in DOMAIN ms}
              IN  [status |-> "ok", type |-> "dict",
                   value |-> [k \in keys |-> FieldVal(LastWith(ms, k))]]
         ELSE JSONDecodeError

(***************************************************************************)
(* extract_json_from_response (src/utils/vlm_provider.py)                  *)
(***************************************************************************)
\* Faulty variant: when the interior of a fence does not parse, the braces of
\* the whole text are tried.
extract_json_from_response_falls_through(response) ==
    LET whole == json_loads(response)
        braces == LET start == Find(response, "{", 1)
                      end == RFind(response, "}")
                  IN  IF start # 0 /\ end > start
                      THEN json_loads(SubSeq(response, start, end))
                      ELSE ValueError
    IN
    IF whole.status = "ok" THEN whole
    ELSE IF FindTagged(response) # 0
         THEN LET start == FindTagged(response) + 2
                  end == Find(response, "fence", start)
                  inner == json_loads(Strip(SliceTo(response, start, end)))
              IN  IF inner.status = "ok" THEN inner ELSE braces
    ELSE IF Find(response, "fence", 1) # 0
         THEN LET start == Find(response, "fence", 1) + 1
                  end == Find(response, "fence", start)
                  inner == json_loads(Strip(SliceTo(response, start, end)))
              IN  IF inner.status = "ok" THEN inner ELSE braces
    ELSE braces

\* Faulty variant: the tagged branch skips the fence marker but not its tag.
extract_json_from_response_keeps_tag(response) ==
    LET whole == json_loads(response) IN
    IF whole.status = "ok" THEN whole
    ELSE IF FindTagged(response) # 0
         THEN LET start == FindTagged(response) + 1
                  end == Find(response, "fence", start)
              IN  json_loads(Strip(SliceTo(response, start, end)))
    ELSE IF Find(response, "fence", 1) # 0
         THEN LET start == Find(response, "fence", 1) + 1
                  end == Find(response, "fence", start)
              IN  json_loads(Strip(SliceTo(response, start, end)))
    ELSE LET start == Find(response, "{", 1)
             end == RFind(response, "}")
         IN  IF start # 0 /\ end > start
             THEN json_loads(SubSeq(response, start, end))
             ELSE ValueError

extract_json_from_response(response) ==
    LET whole == json_loads(response) IN
    IF whole.status = "ok" THEN whole
    ELSE IF FindTagged(response) # 0
         THEN LET start == FindTagged(response) + 2
                  end == Find(response, "fence", start)
              IN  json_loads(Strip(SliceTo(response, start, end)))
    ELSE IF Find(response, "fence", 1) # 0
         THEN LET start == Find(response, "fence", 1) + 1
                  end == Find(response, "fence", start)
              IN  json_loads(Strip(SliceTo(response, start, end)))
    ELSE LET start == Find(response, "{", 1)
             end == RFind(response, "}")
         IN  IF start # 0 /\ end > start
             THEN json_loads(SubSeq(response, start, end))
             ELSE ValueError

(***************************************************************************)
(* Inputs: what the providers may answer, why they may fail, which files   *)
(* may be submitted.                                                       *)
(***************************************************************************)
VisionReplies ==
    { <<"{", "M", "Q90", "I1", "}">>,
      <<"fence", "json", " ", "{", "M", "Q50", "I0", "}", " ", "fence">>,
      <<"x", "fence", "{", "M", "Q49", "I1", "}", "fence">>,
      <<"x", "{", "Q30", "I1", "}", "x">>,
      <<"{", "M", "I1", "}">>,
      <<"{", "M", "Q150", "I2", "}">>,
      <<"{", "M", "Q90", "I3", "}">>,
      <<"{", "Q_", "I1", "}">>,
      <<"x", "x">>,
      <<"{", "x", "}">>,
      <<"7">>,
      <<"fence", "json", "{", "M", "Q90", "}">> }

TextReplies ==
    { <<"{", "S", "}">>,
      <<"x", "fence", "json", "{", "S", "}", "fence">>,
      <<"x">>,
      <<"fence", "x", "fence">>,
      <<"7">>,
      <<"{", "}">> }

\* How the transport call of a provider can fail (the text of the raw error).
ApiFailures == {"401 unauthorized", "404 not found", "rate limit", "timeout"}

\* analyze_image reads the image file before its try block.
VisionFailures == ApiFailures \cup {"file unreadable"}

Images ==
    { [path |-> "receipt.jpg", exists |-> TRUE,  ext |-> ".jpg", size_mb |-> 1,  pdf_ok |-> TRUE],
      [path |-> "receipt.pdf", exists |-> TRUE,  ext |-> ".pdf", size_mb |-> 1,  pdf_ok |-> TRUE],
      [path |-> "broken.pdf",  exists |-> TRUE,  ext |-> ".pdf", size_mb |-> 1,  pdf_ok |-> FALSE],
      [path |-> "gone.png",    exists |-> FALSE, ext |-> ".png", size_mb |-> 0,  pdf_ok |-> TRUE],
      [path |-> "bill.gif",    exists |-> TRUE,  ext |-> ".gif", size_mb |-> 1,  pdf_ok |-> TRUE],
      [path |-> "huge.png",    exists |-> TRUE,  ext |-> ".png", size_mb |-> 11, pdf_ok |-> TRUE] }

\* The process environment: each credential variable is not set, set to the
\* empty string or set to a key.
Environments ==
    UNION {[names -> {"", "sk-key"}] :
              names \in SUBSET {"OPENROUTER_API_KEY", "GROQ_API_KEY"}}

NumRuns == 2

Runs == 1..NumRuns

MaxPriorBills == 1

None == "None"

MAX_SIZE_MB == 10

(***************************************************************************)
(* State.  One ModelManager and one persistence store are shared by the    *)
(* runs of process_bill; everything else is local to a run.                *)
(***************************************************************************)
VARIABLES
    env,                \* credential environment variables that are set
    args,               \* arguments of ModelManager(primary_model, fallback_model)
    mgr,                \* the ModelManager: built, names, whether self.fallback is set
    bills,              \* committed rows of table bills
    expenses,           \* committed rows of table expenses
    pc,                 \* per run: where process_bill stands
    image,              \* per run: the submitted file
    primary_error,      \* per run: the exception caught from the primary provider
    mres,               \* per run: what the ModelManager call returned
    extraction_result,  \* per run: what _extract_bill_data_with_vlm returned
    summary_result,     \* per run: what _generate_summary_with_vlm returned
    bill_id,            \* per run: the id save_bill returned (0: none yet)
    result,             \* per run: what process_bill returned
    trace               \* per run: the stage actions performed, in order

vars == <<env, args, mgr, bills, expenses, pc, image, primary_error, mres,
          extraction_result, summary_result, bill_id, result, trace>>

shared == <<env, args, mgr>>

(***************************************************************************)
(* VLMProvider (src/utils/vlm_provider.py)                                 *)
(***************************************************************************)
\* _initialize_client: TRUE when the client is built, FALSE when it raises
\* ValueError because the credential is not set.
\* Faulty variant: only a variable that is not set at all is refused.
initialize_client_accepts_empty(config, environment) ==
    Get(environment, config.api_key_env, None) # None

\* os.getenv(api_key_env) followed by "if not api_key: raise ValueError".
initialize_client(config, environment) ==
    Get(environment, config.api_key_env, None) \notin {None, ""}

\* analyze_image: the text of the exception raised for a failure.
analyze_image_error(config, cause) ==
    IF cause = "file unreadable" THEN <<"No such file or directory">>
    ELSE IF cause = "401 unauthorized"
         THEN <<"Authentication failed with", config.provider, config.api_key_env>>
    ELSE IF cause = "404 not found"
         THEN <<"Model not found:", config.model, config.provider>>
    ELSE IF cause = "rate limit"
         THEN <<"Rate limit exceeded on", config.provider>>
    ELSE <<"VLM Error", config.model, cause>>

\* generate_text: the text of the exception raised for a failure.
generate_text_error(config, cause) ==
    <<"Text Generation Error", config.model, cause>>

(***************************************************************************)
(* ModelManager: the result dictionaries of the two calls.                 *)
(***************************************************************************)
\* Faulty variant: the primary's answer is flagged as a fallback answer.
analyze_primary_success_flagged(m, response, elapsed) ==
    [success |-> TRUE, response |-> response,
     model_used |-> m.primary_model_name, fallback_used |-> TRUE,
     processing_time |-> elapsed]

analyze_primary_success(m, response, elapsed) ==
    [success |-> TRUE, response |-> response,
     model_used |-> m.primary_model_name, fallback_used |-> FALSE,
     processing_time |-> elapsed]

analyze_fallback_success(m, response, perr, elapsed) ==
    [success |-> TRUE, response |-> response,
     model_used |-> m.fallback_model_name, fallback_used |-> TRUE,
     primary_error |-> perr, processing_time |-> elapsed]

analyze_both_failed(m, perr, ferr, elapsed) ==
    [success |-> FALSE,
     error |-> <<"Both models failed.", "Primary", m.primary_model_name>> \o perr
                  \o <<"Fallback", m.fallback_model_name>> \o ferr,
     fallback_used |-> TRUE, processing_time |-> elapsed]

analyze_no_fallback(m, perr, elapsed) ==
    [success |-> FALSE, error |-> perr, fallback_used |-> FALSE,
     processing_time |-> elapsed]

generate_primary_success(m, response, elapsed) ==
    [success |-> TRUE, response |-> response,
     model_used |-> m.primary_model_name, fallback_used |-> FALSE,
     processing_time |-> elapsed]

\* Faulty variant: the fallback answer is credited to the primary.
generate_fallback_success_primary_name(m, response, perr, elapsed) ==
    [success |-> TRUE, response |-> response,
     model_used |-> m.primary_model_name, fallback_used |-> TRUE,
     processing_time |-> elapsed]

generate_fallback_success(m, response, perr, elapsed) ==
    [success |-> TRUE, response |-> response,
     model_used |-> m.fallback_model_name, fallback_used |-> TRUE,
     processing_time |-> elapsed]

generate_both_failed(m, perr, ferr, elapsed) ==
    [success |-> FALSE,
     error |-> <<"Both failed.", "Primary:">> \o perr \o <<"Fallback:">> \o ferr,
     processing_time |-> elapsed]

generate_no_fallback(m, perr, elapsed) ==
    [success |-> FALSE, error |-> perr, processing_time |-> elapsed]

\* Faulty variant: a fallback that is named counts as available even when its
\* client could not be initialised.
ModelManager_init_named(a, environment) ==
    IF ~initialize_client(MODEL_PROVIDERS[a.primary_model], environment)
    THEN [built |-> "failed", primary_model_name |-> a.primary_model,
          fallback_model_name |-> a.fallback_model, fallback |-> FALSE]
    ELSE [built |-> "yes", primary_model_name |-> a.primary_model,
          fallback_model_name |-> a.fallback_model,
          fallback |-> a.fallback_model # None]

\* ModelManager.__init__: the primary must initialise; a fallback that is
\* named but fails to initialise leaves self.fallback = None.
ModelManager_init(a, environment) ==
    IF ~initialize_client(MODEL_PROVIDERS[a.primary_model], environment)
    THEN [built |-> "failed", primary_model_name |-> a.primary_model,
          fallback_model_name |-> a.fallback_model, fallback |-> FALSE]
    ELSE [built |-> "yes", primary_model_name |-> a.primary_model,
          fallback_model_name |-> a.fallback_model,
          fallback |-> IF a.fallback_model # None
                       THEN initialize_client(MODEL_PROVIDERS[a.fallback_model],
                                              environment)
                       ELSE FALSE]

(***************************************************************************)
(* Image preparation (src/utils/image_processor.py)                        *)
(***************************************************************************)
\* Faulty variant: the size of the file is not checked.
validate_image_any_size(img) ==
    IF ~img.exists THEN <<FALSE, "File does not exist">>
    ELSE IF img.ext \notin {".jpg", ".jpeg", ".png", ".pdf"}
         THEN <<FALSE, "Unsupported format">>
    ELSE <<TRUE, "Valid">>

validate_image(img) ==
    IF ~img.exists THEN <<FALSE, "File does not exist">>
    ELSE IF img.ext \notin {".jpg", ".jpeg", ".png", ".pdf"}
         THEN <<FALSE, "Unsupported format">>
    ELSE IF img.size_mb > MAX_SIZE_MB THEN <<FALSE, "File too large">>
    ELSE <<TRUE, "Valid">>

\* prepare_image_for_vlm: the processed path, or the exception it raises.
prepare_image_for_vlm(img) ==
    IF ~validate_image(img)[1]
    THEN [raised |-> TRUE,
          error |-> <<"Image validation failed:", validate_image(img)[2]>>]
    ELSE IF img.ext = ".pdf" /\ ~img.pdf_ok
         THEN [raised |-> TRUE, error |-> <<"PDF conversion failed:">>]
    ELSE [raised |-> FALSE, path |-> img.path]

(***************************************************************************)
(* The persistence store (src/database/db_manager.py)                      *)
(***************************************************************************)
PriorBill(i) ==
    [bill_id |-> i, merchant_name |-> "Earlier", image_path |-> "earlier.jpg",
     confidence_score |-> 90, model_used |-> DEFAULT_VISION_MODEL,
     fallback_used |-> FALSE, processing_time |-> 2]

\* cursor.lastrowid of an insert into a table no row was ever deleted from.
lastrowid(table) == Len(table) + 1

(***************************************************************************)
(* Initial state: the environment and the constructor arguments are        *)
(* inputs; the store may already hold bills; run 1 has been submitted.     *)
(***************************************************************************)
Init ==
    /\ env \in Environments
    /\ args \in [primary_model : {DEFAULT_VISION_MODEL},
                 fallback_model : {None, FALLBACK_VISION_MODEL}]
    /\ mgr = [built |-> "no", primary_model_name |-> None,
              fallback_model_name |-> None, fallback |-> FALSE]
    /\ \E n \in 0..MaxPriorBills : bills = [i \in 1..n |-> PriorBill(i)]
    /\ expenses = <<>>
    /\ pc = [r \in Runs |-> IF r = 1 THEN "received" ELSE "idle"]
    /\ \E img \in Images : image = [r \in Runs |-> img]
    /\ primary_error = [r \in Runs |-> <<>>]
    /\ mres = [r \in Runs |-> EmptyDict]
    /\ extraction_result = [r \in Runs |-> EmptyDict]
    /\ summary_result = [r \in Runs |-> EmptyDict]
    /\ bill_id = [r \in Runs |-> 0]
    /\ result = [r \in Runs |-> EmptyDict]
    /\ trace = [r \in Runs |-> <<>>]

Construct ==
    /\ mgr.built = "no"
    /\ mgr' = ModelManager_init(args, env)
    /\ UNCHANGED <<env, args, bills, expenses, pc, image, primary_error, mres,
                   extraction_result, summary_result, bill_id, result, trace>>

(***************************************************************************)
(* BillProcessor.process_bill (bill_processor.py), one action per blocking *)
(* call.  Log appends the stage action to the run's trace, with what a       *)
(* provider answered or raised.                                            *)
(***************************************************************************)
Log(r, ev, ok, out) ==
    trace' = [trace EXCEPT ![r] = Append(@, [ev |-> ev, ok |-> ok, out |-> out])]

Goto(r, label) == pc' = [pc EXCEPT ![r] = label]

Return(r, res) ==
    /\ result' = [result EXCEPT ![r] = res]
    /\ Goto(r, "done")

\* Faulty variant: the except clause returns no stage.
except_Exception_untagged(e) ==
    [success |-> FALSE, error |-> <<"Processing failed:">> \o e]

\* The except clause of process_bill.
except_Exception(e) ==
    [success |-> FALSE, error |-> <<"Processing failed:">> \o e,
     stage |-> "unknown"]

\* Step 1: prepare_image_for_vlm(image_path).
PrepareImage(r) ==
    /\ pc[r] = "received"
    /\ mgr.built = "yes"
    /\ LET prep == prepare_image_for_vlm(image[r]) IN
       /\ Log(r, "prepare", ~prep.raised, <<>>)
       /\ IF prep.raised
          THEN Return(r, except_Exception(prep.error))
          ELSE Goto(r, "vision_primary") /\ UNCHANGED result
    /\ UNCHANGED <<shared, bills, expenses, image, primary_error, mres,
                   extraction_result, summary_result, bill_id>>

(***************************************************************************)
(* ModelManager.analyze_image_with_fallback, called by                     *)
(* _extract_bill_data_with_vlm (Step 2).  Each provider invocation is one  *)
(* action; elapsed time is counted in provider invocations.                *)
(***************************************************************************)
\* "if self.fallback:" in the except clause of the primary attempt.
fallback_available(m) == m.fallback

\* Faulty variant: the manager catches only the errors analyze_image classified, so
\* a failure to read the image file escapes the call.
AnalyzePrimary_escapes(r) ==
    /\ pc[r] = "vision_primary"
    /\ \/ \E reply \in VisionReplies :
            /\ mres' = [mres EXCEPT ![r] = analyze_primary_success(mgr, reply, 1)]
            /\ Log(r, "vision_primary", TRUE, reply)
            /\ Goto(r, "vision_returned")
            /\ UNCHANGED <<primary_error, result>>
       \/ \E cause \in VisionFailures :
            LET perr == analyze_image_error(MODEL_PROVIDERS[mgr.primary_model_name],
                                            cause)
            IN  /\ Log(r, "vision_primary", FALSE, perr)
                /\ IF cause = "file unreadable"
                   THEN /\ Return(r, except_Exception(perr))
                        /\ UNCHANGED <<mres, primary_error>>
                   ELSE IF fallback_available(mgr)
                   THEN /\ primary_error' = [primary_error EXCEPT ![r] = perr]
                        /\ Goto(r, "vision_fallback")
                        /\ UNCHANGED <<mres, result>>
                   ELSE /\ mres' = [mres EXCEPT ![r] =
                                       analyze_no_fallback(mgr, perr, 1)]
                        /\ Goto(r, "vision_returned")
                        /\ UNCHANGED <<primary_error, result>>
    /\ UNCHANGED <<shared, bills, expenses, image, extraction_result,
                   summary_result, bill_id>>

AnalyzePrimary(r) ==
    /\ pc[r] = "vision_primary"
    /\ \/ \E reply \in VisionReplies :
            /\ mres' = [mres EXCEPT ![r] = analyze_primary_success(mgr, reply, 1)]
            /\ Log(r, "vision_primary", TRUE, reply)
            /\ Goto(r, "vision_returned")
            /\ UNCHANGED primary_error
       \/ \E cause \in VisionFailures :
            LET perr == analyze_image_error(MODEL_PROVIDERS[mgr.primary_model_name],
                                            cause)
            IN  /\ Log(r, "vision_primary", FALSE, perr)
                /\ IF fallback_available(mgr)
                   THEN /\ primary_error' = [primary_error EXCEPT ![r] = perr]
                        /\ Goto(r, "vision_fallback")
                        /\ UNCHANGED mres
                   ELSE /\ mres' = [mres EXCEPT ![r] =
                                       analyze_no_fallback(mgr, perr, 1)]
                        /\ Goto(r, "vision_returned")
                        /\ UNCHANGED primary_error
    /\ UNCHANGED <<shared, bills, expenses, image, extraction_result,
                   summary_result, bill_id, result>>

AnalyzeFallback(r) ==
    /\ pc[r] = "vision_fallback"
    /\ \/ \E reply \in VisionReplies :
            /\ mres' = [mres EXCEPT ![r] =
                           analyze_fallback_success(mgr, reply, primary_error[r], 2)]
            /\ Log(r, "vision_fallback", TRUE, reply)
       \/ \E cause \in VisionFailures :
            LET ferr == analyze_image_error(MODEL_PROVIDERS[mgr.fallback_model_name],
                                            cause)
            IN  /\ mres' = [mres EXCEPT ![r] =
                               analyze_both_failed(mgr, primary_error[r], ferr, 2)]
                /\ Log(r, "vision_fallback", FALSE, ferr)
    /\ Goto(r, "vision_returned")
    /\ UNCHANGED <<shared, bills, expenses, image, primary_error,
                   extraction_result, summary_result, bill_id, result>>

(***************************************************************************)
(* ModelManager.generate_text_with_fallback, called by                     *)
(* _generate_summary_with_vlm (Step 4).                                    *)
(***************************************************************************)
\* Faulty variant: an authentication failure of the primary is final, the
\* fallback is tried for the other failures only.
GeneratePrimary_auth_final(r) ==
    /\ pc[r] = "text_primary"
    /\ \/ \E reply \in TextReplies :
            /\ mres' = [mres EXCEPT ![r] = generate_primary_success(mgr, reply, 1)]
            /\ Log(r, "text_primary", TRUE, reply)
            /\ Goto(r, "text_returned")
            /\ UNCHANGED primary_error
       \/ \E cause \in ApiFailures :
            LET perr == generate_text_error(MODEL_PROVIDERS[mgr.primary_model_name],
                                            cause)
            IN  /\ Log(r, "text_primary", FALSE, perr)
                /\ IF fallback_available(mgr) /\ cause # "401 unauthorized"
                   THEN /\ primary_error' = [primary_error EXCEPT ![r] = perr]
                        /\ Goto(r, "text_fallback")
                        /\ UNCHANGED mres
                   ELSE /\ mres' = [mres EXCEPT ![r] =
                                       generate_no_fallback(mgr, perr, 1)]
                        /\ Goto(r, "text_returned")
                        /\ UNCHANGED primary_error
    /\ UNCHANGED <<shared, bills, expenses, image, extraction_result,
                   summary_result, bill_id, result>>

GeneratePrimary(r) ==
    /\ pc[r] = "text_primary"
    /\ \/ \E reply \in TextReplies :
            /\ mres' = [mres EXCEPT ![r] = generate_primary_success(mgr, reply, 1)]
            /\ Log(r, "text_primary", TRUE, reply)
            /\ Goto(r, "text_returned")
            /\ UNCHANGED primary_error
       \/ \E cause \in ApiFailures :
            LET perr == generate_text_error(MODEL_PROVIDERS[mgr.primary_model_name],
                                            cause)
            IN  /\ Log(r, "text_primary", FALSE, perr)
                /\ IF fallback_available(mgr)
                   THEN /\ primary_error' = [primary_error EXCEPT ![r] = perr]
                        /\ Goto(r, "text_fallback")
                        /\ UNCHANGED mres
                   ELSE /\ mres' = [mres EXCEPT ![r] =
                                       generate_no_fallback(mgr, perr, 1)]
                        /\ Goto(r, "text_returned")
                        /\ UNCHANGED primary_error
    /\ UNCHANGED <<shared, bills, expenses, image, extraction_result,
                   summary_result, bill_id, result>>

\* Faulty variant: a failed fallback attempt starts the chain again.
GenerateFallback_retry(r) ==
    /\ pc[r] = "text_fallback"
    /\ \/ \E reply \in TextReplies :
            /\ mres' = [mres EXCEPT ![r] =
                           generate_fallback_success(mgr, reply, primary_error[r], 2)]
            /\ Log(r, "text_fallback", TRUE, reply)
            /\ Goto(r, "text_returned")
       \/ \E cause \in ApiFailures :
            LET ferr == generate_text_error(MODEL_PROVIDERS[mgr.fallback_model_name],
                                            cause)
            IN  /\ Log(r, "text_fallback", FALSE, ferr)
                /\ Goto(r, "text_primary")
                /\ UNCHANGED mres
    /\ UNCHANGED <<shared, bills, expenses, image, primary_error,
                   extraction_result, summary_result, bill_id, result>>

GenerateFallback(r) ==
    /\ pc[r] = "text_fallback"
    /\ \/ \E reply \in TextReplies :
            /\ mres' = [mres EXCEPT ![r] =
                           generate_fallback_success(mgr, reply, primary_error[r], 2)]
            /\ Log(r, "text_fallback", TRUE, reply)
       \/ \E cause \in ApiFailures :
            LET ferr == generate_text_error(MODEL_PROVIDERS[mgr.fallback_model_name],
                                            cause)
            IN  /\ mres' = [mres EXCEPT ![r] =
                               generate_both_failed(mgr, primary_error[r], ferr, 2)]
                /\ Log(r, "text_fallback", FALSE, ferr)
    /\ Goto(r, "text_returned")
    /\ UNCHANGED <<shared, bills, expenses, image, primary_error,
                   extraction_result, summary_result, bill_id, result>>

(***************************************************************************)
(* _extract_bill_data_with_vlm after the manager call, and the check of    *)
(* its result in process_bill.                                             *)
(***************************************************************************)
\* A parsed document as a Python value.
PyValue(parsed) ==
    IF parsed.type = "dict" THEN [type |-> "dict", value |-> parsed.value]
    ELSE [type |-> "int"]

AttributeError == <<"object has no attribute 'get'">>

NoJSONFound == <<"No valid JSON found in response">>

\* The handler of _extract_bill_data_with_vlm: which failures of
\* extract_json_from_response become a result with success = False.
extraction_catches(parsed) == parsed.status = "JSONDecodeError"

ExtractionReturn(r) ==
    /\ pc[r] = "vision_returned"
    /\ LET res == mres[r]
           parsed == extract_json_from_response(res.response)
       IN  IF ~res.success
           THEN /\ extraction_result' = [extraction_result EXCEPT ![r] = res]
                /\ Return(r, [success |-> FALSE, error |-> res.error,
                              stage |-> "vlm_extraction"])
           ELSE IF parsed.status = "ok"
           THEN /\ extraction_result' = [extraction_result EXCEPT ![r] =
                       [success |-> TRUE, data |-> PyValue(parsed),
                        model_used |-> res.model_used,
                        fallback_used |-> res.fallback_used,
                        processing_time |-> res.processing_time]]
                /\ Goto(r, "quality_check")
                /\ UNCHANGED result
           ELSE IF extraction_catches(parsed)
           THEN /\ extraction_result' = [extraction_result EXCEPT ![r] =
                       [success |-> FALSE,
                        error |-> <<"Failed to parse VLM response:">>,
                        raw_response |-> res.response]]
                /\ Return(r, [success |-> FALSE,
                              error |-> <<"Failed to parse VLM response:">>,
                              stage |-> "vlm_extraction"])
           ELSE /\ Return(r, except_Exception(NoJSONFound))
                /\ UNCHANGED extraction_result
    /\ UNCHANGED <<shared, bills, expenses, image, primary_error, mres,
                   summary_result, bill_id, trace>>

(***************************************************************************)
(* Step 3: the quality gate.                                               *)
(***************************************************************************)
quality_assessment(bill_data) == Get(bill_data, "quality_assessment", EmptyDict)

\* Faulty variant: a reply without a confidence score counts as fully confident.
quality_score_trusting(bill_data) ==
    Get(quality_assessment(bill_data), "confidence_score", 100)

quality_score(bill_data) ==
    Get(quality_assessment(bill_data), "confidence_score", 0)

\* Faulty variant: the boundary value is rejected too.
rejected_inclusive(score) == score <= MIN_CONFIDENCE_SCORE

rejected(score) == score < MIN_CONFIDENCE_SCORE

\* Faulty variant: the rejection reports the threshold instead of the score.
quality_rejection_threshold(bill_data) ==
    [success |-> FALSE, error |-> <<"Image quality too low.">>,
     quality_score |-> MIN_CONFIDENCE_SCORE,
     stage |-> "quality_check",
     details |-> quality_assessment(bill_data)]

quality_rejection(bill_data) ==
    [success |-> FALSE, error |-> <<"Image quality too low.">>,
     quality_score |-> quality_score(bill_data),
     stage |-> "quality_check",
     details |-> quality_assessment(bill_data)]

QualityGate(r) ==
    /\ pc[r] = "quality_check"
    /\ LET data == extraction_result[r].data IN
       IF data.type # "dict"
       THEN /\ Log(r, "quality_gate", FALSE, <<>>)
            /\ Return(r, except_Exception(AttributeError))
       ELSE /\ Log(r, "quality_gate", ~rejected(quality_score(data.value)), <<>>)
            /\ IF rejected(quality_score(data.value))
               THEN Return(r, quality_rejection(data.value))
               ELSE Goto(r, "text_primary") /\ UNCHANGED result
    /\ UNCHANGED <<shared, bills, expenses, image, primary_error, mres,
                   extraction_result, summary_result, bill_id>>

(***************************************************************************)
(* _generate_summary_with_vlm after the manager call, and the check of its *)
(* result in process_bill.                                                 *)
(***************************************************************************)
summary_catches(parsed) == parsed.status = "JSONDecodeError"

\* Faulty variant: a summary that does not parse is passed on to persistence.
SummaryReturn_continues(r) ==
    /\ pc[r] = "text_returned"
    /\ LET res == mres[r]
           parsed == extract_json_from_response(res.response)
       IN  IF ~res.success
           THEN /\ summary_result' = [summary_result EXCEPT ![r] = res]
                /\ Return(r, [success |-> FALSE, error |-> res.error,
                              stage |-> "summary_generation"])
           ELSE IF parsed.status = "ok"
           THEN /\ summary_result' = [summary_result EXCEPT ![r] =
                       [success |-> TRUE, data |-> PyValue(parsed),
                        processing_time |-> res.processing_time]]
                /\ Goto(r, "save_bill")
                /\ UNCHANGED result
           ELSE /\ summary_result' = [summary_result EXCEPT ![r] =
                       [success |-> FALSE,
                        error |-> <<"Failed to parse summary:">>,
                        raw_response |-> res.response]]
                /\ Goto(r, "save_bill")
                /\ UNCHANGED result
    /\ UNCHANGED <<shared, bills, expenses, image, primary_error, mres,
                   extraction_result, bill_id, trace>>

SummaryReturn(r) ==
    /\ pc[r] = "text_returned"
    /\ LET res == mres[r]
           parsed == extract_json_from_response(res.response)
       IN  IF ~res.success
           THEN /\ summary_result' = [summary_result EXCEPT ![r] = res]
                /\ Return(r, [success |-> FALSE, error |-> res.error,
                              stage |-> "summary_generation"])
           ELSE IF parsed.status = "ok"
           THEN /\ summary_result' = [summary_result EXCEPT ![r] =
                       [success |-> TRUE, data |-> PyValue(parsed),
                        processing_time |-> res.processing_time]]
                /\ Goto(r, "save_bill")
                /\ UNCHANGED result
           ELSE IF summary_catches(parsed)
           THEN /\ summary_result' = [summary_result EXCEPT ![r] =
                       [success |-> FALSE,
                        error |-> <<"Failed to parse summary:">>,
                        raw_response |-> res.response]]
                /\ Return(r, [success |-> FALSE,
                              error |-> <<"Failed to parse summary:">>,
                              stage |-> "summary_generation"])
           ELSE /\ Return(r, except_Exception(NoJSONFound))
                /\ UNCHANGED summary_result
    /\ UNCHANGED <<shared, bills, expenses, image, primary_error, mres,
                   extraction_result, bill_id, trace>>

(***************************************************************************)
(* Step 5: processing_metadata; Step 6: _save_to_database, whose two       *)
(* store calls are one action each.                                        *)
(***************************************************************************)
\* Faulty variant: the provenance names the model the manager was asked for.
processing_metadata_requested(r) ==
    [model_used |-> mgr.primary_model_name,
     fallback_used |-> Get(extraction_result[r], "fallback_used", FALSE),
     processing_time |-> Get(extraction_result[r], "processing_time", 0)
                            + Get(summary_result[r], "processing_time", 0)]

processing_metadata(r) ==
    [model_used |-> Get(extraction_result[r], "model_used", None),
     fallback_used |-> Get(extraction_result[r], "fallback_used", FALSE),
     processing_time |-> Get(extraction_result[r], "processing_time", 0)
                            + Get(summary_result[r], "processing_time", 0)]

bill_row(id, bill_data, image_path, metadata) ==
    [bill_id |-> id,
     merchant_name |-> Get(bill_data, "merchant_name", "Unknown"),
     image_path |-> image_path,
     confidence_score |-> quality_score(bill_data),
     model_used |-> Get(metadata, "model_used", "unknown"),
     fallback_used |-> Get(metadata, "fallback_used", FALSE),
     processing_time |-> Get(metadata, "processing_time", 0)]

expense_row(id, expense) ==
    [bill_id |-> id,
     item_description |-> Get(expense, "description", ""),
     amount |-> Get(expense, "amount", 0),
     category |-> Get(expense, "category", "uncategorized"),
     confidence_score |-> Get(expense, "confidence", 0)]

DatabaseError == <<"sqlite3.OperationalError">>

\* Faulty variant: the id of the last saved bill is kept in one place for all
\* runs instead of a local of the run.
SaveBill_shared_id(r) ==
    /\ pc[r] = "save_bill"
    /\ LET bill_data == extraction_result[r].data.value
           id == lastrowid(bills)
       IN  \/ /\ bills' = Append(bills, bill_row(id, bill_data, image[r].path,
                                                 processing_metadata(r)))
              /\ bill_id' = [s \in Runs |-> IF pc[s] = "idle" THEN 0 ELSE id]
              /\ Log(r, "save_bill", TRUE, <<>>)
              /\ IF Get(bill_data, "line_items", <<>>) # <<>>
                 THEN Goto(r, "save_expenses")
                 ELSE Goto(r, "assemble")
              /\ UNCHANGED result
           \/ /\ Log(r, "save_bill", FALSE, <<>>)
              /\ Return(r, except_Exception(DatabaseError))
              /\ UNCHANGED <<bills, bill_id>>
    /\ UNCHANGED <<shared, expenses, image, primary_error, mres,
                   extraction_result, summary_result>>

\* DatabaseManager.save_bill: insert, commit, return cursor.lastrowid; or the
\* store raises and nothing is committed.
SaveBill(r) ==
    /\ pc[r] = "save_bill"
    /\ LET bill_data == extraction_result[r].data.value
           id == lastrowid(bills)
       IN  \/ /\ bills' = Append(bills, bill_row(id, bill_data, image[r].path,
                                                 processing_metadata(r)))
              /\ bill_id' = [bill_id EXCEPT ![r] = id]
              /\ Log(r, "save_bill", TRUE, <<>>)
              /\ IF Get(bill_data, "line_items", <<>>) # <<>>
                 THEN Goto(r, "save_expenses")
                 ELSE Goto(r, "assemble")
              /\ UNCHANGED result
           \/ /\ Log(r, "save_bill", FALSE, <<>>)
              /\ Return(r, except_Exception(DatabaseError))
              /\ UNCHANGED <<bills, bill_id>>
    /\ UNCHANGED <<shared, expenses, image, primary_error, mres,
                   extraction_result, summary_result>>

\* Faulty variant: the expenses are stored under the id of the next bill.
SaveExpenses_next_id(r) ==
    /\ pc[r] = "save_expenses"
    /\ LET items == extraction_result[r].data.value.line_items IN
       \/ /\ expenses' = expenses \o
                           [i \in 1..Len(items) |->
                               expense_row(lastrowid(bills), items[i])]
          /\ Log(r, "save_expenses", TRUE, <<>>)
          /\ Goto(r, "assemble")
          /\ UNCHANGED result
       \/ /\ Log(r, "save_expenses", FALSE, <<>>)
          /\ Return(r, except_Exception(DatabaseError))
          /\ UNCHANGED expenses
    /\ UNCHANGED <<shared, bills, image, primary_error, mres,
                   extraction_result, summary_result, bill_id>>

\* DatabaseManager.save_expenses: one insert per item, one commit at the end;
\* or the store raises and no expense row is committed.
SaveExpenses(r) ==
    /\ pc[r] = "save_expenses"
    /\ LET items == extraction_result[r].data.value.line_items IN
       \/ /\ expenses' = expenses \o
                           [i \in 1..Len(items) |-> expense_row(bill_id[r], items[i])]
          /\ Log(r, "save_expenses", TRUE, <<>>)
          /\ Goto(r, "assemble")
          /\ UNCHANGED result
       \/ /\ Log(r, "save_expenses", FALSE, <<>>)
          /\ Return(r, except_Exception(DatabaseError))
          /\ UNCHANGED expenses
    /\ UNCHANGED <<shared, bills, image, primary_error, mres,
                   extraction_result, summary_result, bill_id>>

(***************************************************************************)
(* Step 7: create_final_output (src/utils/json_formatter.py) and the       *)
(* successful return.                                                      *)
(***************************************************************************)
\* Faulty variant: total_items counts the members of the bill, not its items.
create_final_output_counts_members(bill_data, summary_data, metadata) ==
    [bill_metadata |->
        [bill_id |-> Get(metadata, "bill_id", None),
         merchant_name |-> Get(bill_data, "merchant_name", "Unknown"),
         image_quality |-> Get(quality_assessment(bill_data), "overall_quality",
                               "unknown"),
         overall_confidence |-> quality_score(bill_data),
         model_used |-> Get(metadata, "model_used", "unknown"),
         fallback_used |-> Get(metadata, "fallback_used", FALSE)],
     expenses |-> Get(bill_data, "line_items", <<>>),
     summary |-> Get(summary_data, "summary", EmptyDict),
     insights |-> Get(summary_data, "insights", EmptyDict),
     metadata |->
        [processing_time_seconds |-> Get(metadata, "processing_time", 0),
         model_used |-> Get(metadata, "model_used", "unknown"),
         fallback_used |-> Get(metadata, "fallback_used", FALSE),
         total_items |-> Cardinality(DOMAIN bill_data)]]

create_final_output(bill_data, summary_data, metadata) ==
    [bill_metadata |->
        [bill_id |-> Get(metadata, "bill_id", None),
         merchant_name |-> Get(bill_data, "merchant_name", "Unknown"),
         image_quality |-> Get(quality_assessment(bill_data), "overall_quality",
                               "unknown"),
         overall_confidence |-> quality_score(bill_data),
         model_used |-> Get(metadata, "model_used", "unknown"),
         fallback_used |-> Get(metadata, "fallback_used", FALSE)],
     expenses |-> Get(bill_data, "line_items", <<>>),
     summary |-> Get(summary_data, "summary", EmptyDict),
     insights |-> Get(summary_data, "insights", EmptyDict),
     metadata |->
        [processing_time_seconds |-> Get(metadata, "processing_time", 0),
         model_used |-> Get(metadata, "model_used", "unknown"),
         fallback_used |-> Get(metadata, "fallback_used", FALSE),
         total_items |-> Len(Get(bill_data, "line_items", <<>>))]]

Assemble(r) ==
    /\ pc[r] = "assemble"
    /\ LET bill_data == extraction_result[r].data.value
           summary_data == summary_result[r].data
           metadata == [k \in DOMAIN processing_metadata(r) \cup {"bill_id"} |->
                           IF k = "bill_id" THEN bill_id[r]
                           ELSE processing_metadata(r)[k]]
       IN  IF summary_data.type # "dict"
           THEN /\ Log(r, "assemble", FALSE, <<>>)
                /\ Return(r, except_Exception(AttributeError))
           ELSE /\ Log(r, "assemble", TRUE, <<>>)
                /\ Return(r, [success |-> TRUE,
                              data |-> create_final_output(bill_data,
                                           summary_data.value, metadata),
                              bill_id |-> bill_id[r]])
    /\ UNCHANGED <<shared, bills, expenses, image, primary_error, mres,
                   extraction_result, summary_result, bill_id>>

Next ==
    \/ Construct
    \/ \E r \in Runs :
         \/ PrepareImage(r)
         \/ AnalyzePrimary(r)
         \/ AnalyzeFallback(r)
         \/ ExtractionReturn(r)
         \/ QualityGate(r)
         \/ GeneratePrimary(r)
         \/ GenerateFallback(r)
         \/ SummaryReturn(r)
         \/ SaveBill(r)
         \/ SaveExpenses(r)
         \/ Assemble(r)

Spec == Init /\ [][Next]_vars

(***************************************************************************)
(* Vocabulary of the properties.                                           *)
(***************************************************************************)
Contains(s, sub) ==
    \E i \in 0..(Len(s) - Len(sub)) : SubSeq(s, i + 1, i + Len(sub)) = sub

Events(r, ev) == {i \in DOMAIN trace[r] : trace[r][i].ev = ev}

Happened(r, ev) == Events(r, ev) # {}

Succeeded(r, ev) == \E i \in Events(r, ev) : trace[r][i].ok

Failed(r, ev) == \E i \in Events(r, ev) : ~trace[r][i].ok

Output(r, ev) == trace[r][CHOOSE i \in Events(r, ev) : TRUE].out

\* A ModelManager call of run r has just returned; its kind.
Returned(r) == pc[r] \in {"vision_returned", "text_returned"}

Kind(r) == IF pc[r] \in {"vision_primary", "vision_fallback", "vision_returned"}
           THEN "vision" ELSE "text"

PrimaryEv(r) == IF Kind(r) = "vision" THEN "vision_primary" ELSE "text_primary"

FallbackEv(r) == IF Kind(r) = "vision" THEN "vision_fallback" ELSE "text_fallback"

InManager(r) ==
    pc[r] \in {"vision_primary", "vision_fallback", "text_primary", "text_fallback"}

Has(d, k, v) == k \in DOMAIN d /\ d[k] = v

(***************************************************************************)
(* C1: in the Vision and in the Text call, when the primary provider       *)
(* failed and the configured secondary succeeded, the result has           *)
(* success = true, fallback_used = true, model_used = the secondary's name *)
(* and the secondary's response.                                           *)
(***************************************************************************)
C1_FallbackSuccess ==
    \A r \in Runs :
        (Returned(r) /\ Failed(r, PrimaryEv(r)) /\ Succeeded(r, FallbackEv(r)))
        => /\ Has(mres[r], "success", TRUE)
           /\ Has(mres[r], "fallback_used", TRUE)
           /\ Has(mres[r], "model_used", args.fallback_model)
           /\ Has(mres[r], "response", Output(r, FallbackEv(r)))

C1_Witness ==
    \E r \in Runs :
        /\ pc[r] = "text_returned"
        /\ Failed(r, "text_primary") /\ Succeeded(r, "text_fallback")
        /\ Failed(r, "vision_primary") /\ Succeeded(r, "vision_fallback")
        /\ args.fallback_model = FALLBACK_VISION_MODEL

(***************************************************************************)
(* C2: in the Vision and in the Text call, when both providers failed the  *)
(* result has success = false, fallback_used = true and an error text that *)
(* contains the primary's error and the secondary's error.                 *)
(* The Text call returns no fallback_used at all.                          *)
(***************************************************************************)
C2_BothFailed ==
    \A r \in Runs :
        (Returned(r) /\ Failed(r, PrimaryEv(r)) /\ Failed(r, FallbackEv(r)))
        => /\ Has(mres[r], "success", FALSE)
           /\ Has(mres[r], "fallback_used", TRUE)
           /\ "error" \in DOMAIN mres[r]
           /\ Contains(mres[r].error, Output(r, PrimaryEv(r)))
           /\ Contains(mres[r].error, Output(r, FallbackEv(r)))

(***************************************************************************)
(* C3: in the Vision and in the Text call, when no secondary is configured *)
(* and the primary failed, the result has success = false,                 *)
(* fallback_used = false and error = the primary's error.                  *)
(* The Text call returns no fallback_used at all.                          *)
(***************************************************************************)
C3_NoSecondary ==
    \A r \in Runs :
        (Returned(r) /\ args.fallback_model = None /\ Failed(r, PrimaryEv(r)))
        => /\ Has(mres[r], "success", FALSE)
           /\ Has(mres[r], "fallback_used", FALSE)
           /\ Has(mres[r], "error", Output(r, PrimaryEv(r)))

(***************************************************************************)
(* C4: in the Vision and in the Text call, when the primary provider       *)
(* succeeded the result has success = true, model_used = the primary's     *)
(* name, fallback_used = false, and the secondary was not invoked in that  *)
(* call.                                                                   *)
(***************************************************************************)
C4_PrimarySuccess ==
    \A r \in Runs :
        (Returned(r) /\ Succeeded(r, PrimaryEv(r)))
        => /\ Has(mres[r], "success", TRUE)
           /\ Has(mres[r], "model_used", args.primary_model)
           /\ Has(mres[r], "fallback_used", FALSE)
           /\ Has(mres[r], "response", Output(r, PrimaryEv(r)))
           /\ ~Happened(r, FallbackEv(r))

C4_Witness ==
    \E r \in Runs :
        /\ pc[r] = "text_returned"
        /\ Succeeded(r, "text_primary") /\ Succeeded(r, "vision_primary")
        /\ mgr.fallback

(***************************************************************************)
(* C5: within one ModelManager call each provider is invoked at most once, *)
(* the primary first, the secondary only directly after the primary failed *)
(* in that call; no call makes more than two provider invocations.         *)
(***************************************************************************)
C5_TwoTier ==
    \A r \in Runs :
      \A k \in {<<"vision_primary", "vision_fallback">>,
                <<"text_primary", "text_fallback">>} :
        /\ Cardinality(Events(r, k[1])) <= 1
        /\ Cardinality(Events(r, k[2])) <= 1
        /\ Cardinality(Events(r, k[1]) \cup Events(r, k[2])) <= 2
        /\ \A i \in Events(r, k[2]) :
              i > 1 /\ trace[r][i - 1].ev = k[1] /\ ~trace[r][i - 1].ok
        /\ (Returned(r) /\ PrimaryEv(r) = k[1]) => Happened(r, k[1])

C5_Witness ==
    \E r \in Runs :
        /\ pc[r] = "text_returned"
        /\ Failed(r, "vision_primary") /\ Succeeded(r, "vision_fallback")
        /\ Failed(r, "text_primary") /\ Failed(r, "text_fallback")

(***************************************************************************)
(* C6: the two ModelManager calls never raise on a provider failure: from  *)
(* every provider invocation, failed or not (a failure to read the image   *)
(* file included), control stays in the manager or the manager returns a   *)
(* result carrying a boolean success.                                      *)
(***************************************************************************)
C6_NeverRaises ==
    [][\A r \in Runs :
          InManager(r) =>
             \/ pc'[r] = pc[r]
             \/ /\ pc[r] \in {"vision_primary", "text_primary"}
                /\ pc'[r] = (IF Kind(r) = "vision" THEN "vision_fallback"
                                                   ELSE "text_fallback")
             \/ /\ pc'[r] = (IF Kind(r) = "vision" THEN "vision_returned"
                                                   ELSE "text_returned")
                /\ "success" \in DOMAIN mres'[r]
                /\ mres'[r].success \in BOOLEAN
                /\ mres'[r].success \/ "error" \in DOMAIN mres'[r]]_vars

C6_Witness ==
    \E r \in Runs :
        /\ pc[r] = "vision_returned"
        /\ Failed(r, "vision_primary") /\ Failed(r, "vision_fallback")
        /\ Output(r, "vision_primary") = <<"No such file or directory">>
        /\ Has(mres[r], "success", FALSE)

(***************************************************************************)
(* C7: in every run the stage actions happen only in the order image       *)
(* preparation, Vision manager call, quality gate, Text manager call,      *)
(* save_bill, save_expenses, final-record assembly, each at most once, and *)
(* after a stage failed or rejected no later stage acts.                   *)
(***************************************************************************)
Rank(ev) ==
    CASE ev = "prepare" -> 1
      [] ev \in {"vision_primary", "vision_fallback"} -> 2
      [] ev = "quality_gate" -> 3
      [] ev \in {"text_primary", "text_fallback"} -> 4
      [] ev = "save_bill" -> 5
      [] ev = "save_expenses" -> 6
      [] ev = "assemble" -> 7

Reached(r, k) == \E i \in DOMAIN trace[r] : Rank(trace[r][i].ev) >= k

C7_StageOrder ==
    \A r \in Runs :
      LET tr == trace[r] IN
        /\ \A i, j \in DOMAIN tr : i < j => Rank(tr[i].ev) <= Rank(tr[j].ev)
        /\ \A i, j \in DOMAIN tr : tr[i].ev = tr[j].ev => i = j
        /\ \A i \in DOMAIN tr :
              ~tr[i].ok =>
                 \/ i = Len(tr)
                 \/ <<tr[i].ev, tr[i + 1].ev>> \in
                       {<<"vision_primary", "vision_fallback">>,
                        <<"text_primary", "text_fallback">>}
        /\ Reached(r, 2) => Succeeded(r, "prepare")
        /\ Reached(r, 3) => /\ Happened(r, "vision_primary")
                            /\ Has(extraction_result[r], "success", TRUE)
        /\ Reached(r, 4) => Succeeded(r, "quality_gate")
        /\ Reached(r, 5) => /\ Happened(r, "text_primary")
                            /\ Has(summary_result[r], "success", TRUE)
        /\ Reached(r, 6) => Succeeded(r, "save_bill")
        /\ Happened(r, "save_expenses") /\ Happened(r, "assemble")
              => Succeeded(r, "save_expenses")
        /\ (pc[r] = "done" /\ Has(result[r], "success", FALSE))
              => ~Succeeded(r, "assemble")

C7_Witness ==
    \E r \in Runs :
        /\ pc[r] = "done"
        /\ Has(result[r], "success", TRUE)
        /\ \A ev \in {"prepare", "vision_primary", "vision_fallback", "quality_gate",
                      "text_primary", "text_fallback", "save_bill", "save_expenses",
                      "assemble"} : Happened(r, ev)

(***************************************************************************)
(* C8: when the extraction response's self-reported confidence is below    *)
(* MIN_CONFIDENCE_SCORE the run returns success = false with               *)
(* stage = "quality_check", quality_score = the reported confidence and    *)
(* the quality assessment attached, and makes no persistence call.         *)
(***************************************************************************)
Reports(r) ==
    /\ Has(extraction_result[r], "success", TRUE)
    /\ extraction_result[r].data.type = "dict"
    /\ "quality_assessment" \in DOMAIN extraction_result[r].data.value
    /\ "confidence_score" \in
          DOMAIN extraction_result[r].data.value.quality_assessment

Reported(r) == extraction_result[r].data.value.quality_assessment.confidence_score

C8_LowConfidenceRejected ==
    \A r \in Runs :
        (Reports(r) /\ Reported(r) < MIN_CONFIDENCE_SCORE /\ pc[r] # "quality_check")
        => /\ pc[r] = "done"
           /\ Has(result[r], "success", FALSE)
           /\ Has(result[r], "stage", "quality_check")
           /\ Has(result[r], "quality_score", Reported(r))
           /\ Has(result[r], "details",
                  extraction_result[r].data.value.quality_assessment)
           /\ ~Happened(r, "save_bill") /\ ~Happened(r, "save_expenses")
           /\ \A i \in DOMAIN bills : bills[i].image_path # image[r].path
           /\ bill_id[r] = 0

C8_Witness ==
    \E r \in Runs :
        /\ pc[r] = "done"
        /\ Reports(r) /\ Reported(r) = 30
        /\ Has(result[r], "quality_score", 30)

(***************************************************************************)
(* C9: a confidence exactly equal to MIN_CONFIDENCE_SCORE passes the gate  *)
(* and the run proceeds to the summary call; every confidence strictly     *)
(* below it is rejected with stage = "quality_check".                      *)
(***************************************************************************)
C9_GateBoundary ==
    \A r \in Runs :
        (Reports(r) /\ pc[r] # "quality_check")
        => /\ Reported(r) = MIN_CONFIDENCE_SCORE
                => /\ Succeeded(r, "quality_gate")
                   /\ pc[r] = "text_primary" \/ Happened(r, "text_primary")
                   /\ ~Has(result[r], "stage", "quality_check")
           /\ Reported(r) < MIN_CONFIDENCE_SCORE
                => /\ Failed(r, "quality_gate")
                   /\ Has(result[r], "stage", "quality_check")
                   /\ ~Happened(r, "text_primary")

C9_Witness ==
    \E r \in Runs :
        /\ Reports(r) /\ Reported(r) = MIN_CONFIDENCE_SCORE
        /\ Succeeded(r, "quality_gate")
        /\ Happened(r, "text_primary")

(***************************************************************************)
(* C10: every failure of the extraction stage (the manager returned        *)
(* success = false, or the reply could not be parsed, whatever the reply)  *)
(* ends the run with stage = "vlm_extraction", and every such failure of   *)
(* the summary stage with stage = "summary_generation".                    *)
(* A reply with no fence and no brace pair ends the run with               *)
(* stage = "unknown".                                                      *)
(***************************************************************************)
StageFailed(r, primary, fallback, next) ==
    /\ pc[r] = "done"
    /\ Happened(r, primary)
    /\ ~Happened(r, next)
    /\ \/ Has(mres[r], "success", FALSE)
       \/ /\ Has(mres[r], "success", TRUE)
          /\ extract_json_from_response(mres[r].response).status # "ok"

C10_StageTags ==
    \A r \in Runs :
        /\ StageFailed(r, "vision_primary", "vision_fallback", "quality_gate")
              => Has(result[r], "stage", "vlm_extraction")
        /\ StageFailed(r, "text_primary", "text_fallback", "save_bill")
              => Has(result[r], "stage", "summary_generation")

(***************************************************************************)
(* C11: when image preparation fails (file missing, unsupported format,    *)
(* oversize file, PDF conversion failure) the run ends with                *)
(* success = false and no provider call is made.  As claimed the stage is  *)
(* "preparation"; the run ends in the except clause, so the stage is       *)
(* "unknown" and the error is "Processing failed: ..." (C11_Unknown).      *)
(***************************************************************************)
Unpreparable(img) ==
    \/ ~img.exists
    \/ img.ext \notin {".jpg", ".jpeg", ".png", ".pdf"}
    \/ img.size_mb > MAX_SIZE_MB
    \/ img.ext = ".pdf" /\ ~img.pdf_ok

NoProviderCall(r) ==
    \A ev \in {"vision_primary", "vision_fallback", "text_primary", "text_fallback"} :
        ~Happened(r, ev)

C11_Preparation ==
    \A r \in Runs :
        (Unpreparable(image[r]) /\ Happened(r, "prepare"))
        => /\ pc[r] = "done"
           /\ Has(result[r], "success", FALSE)
           /\ Has(result[r], "stage", "preparation")
           /\ NoProviderCall(r)

C11_Unknown ==
    \A r \in Runs :
        (Unpreparable(image[r]) /\ pc[r] \notin {"idle", "received"})
        => /\ pc[r] = "done"
           /\ Has(result[r], "success", FALSE)
           /\ Has(result[r], "stage", "unknown")
           /\ "error" \in DOMAIN result[r]
           /\ Head(result[r].error) = "Processing failed:"
           /\ Len(trace[r]) = 1
           /\ Failed(r, "prepare")
           /\ NoProviderCall(r)

C11_Witness ==
    \E r \in Runs :
        /\ pc[r] = "done"
        /\ image[r].ext = ".pdf" /\ ~image[r].pdf_ok
        /\ Has(result[r], "stage", "unknown")
        /\ Failed(r, "prepare")

(***************************************************************************)
(* C12: process_bill never raises.  An exception thrown at any stage       *)
(* (preparation, extraction, quality gate, summary, persistence, final     *)
(* assembly) ends the run with success = false, stage = "unknown" and an   *)
(* error text; every returned failure carries error and stage, every       *)
(* returned success carries data and bill_id.                              *)
(***************************************************************************)
\* The run ended on an exception raised by one of its stages.
Raised(r) ==
    \/ Failed(r, "prepare")
    \/ StageFailed(r, "vision_primary", "vision_fallback", "quality_gate")
          /\ Has(mres[r], "success", TRUE)
          /\ extract_json_from_response(mres[r].response) = ValueError
    \/ Failed(r, "quality_gate") /\ extraction_result[r].data.type # "dict"
    \/ StageFailed(r, "text_primary", "text_fallback", "save_bill")
          /\ Has(mres[r], "success", TRUE)
          /\ extract_json_from_response(mres[r].response) = ValueError
    \/ Failed(r, "save_bill")
    \/ Failed(r, "save_expenses")
    \/ Failed(r, "assemble")

C12_NeverRaises ==
    \A r \in Runs :
        /\ (pc[r] = "done") <=> (result[r] # EmptyDict)
        /\ pc[r] = "done" =>
              /\ "success" \in DOMAIN result[r]
              /\ result[r].success \in BOOLEAN
              /\ ~result[r].success =>
                    {"error", "stage"} \subseteq DOMAIN result[r]
              /\ result[r].success =>
                    {"data", "bill_id"} \subseteq DOMAIN result[r]
        /\ Raised(r) =>
              /\ pc[r] = "done"
              /\ Has(result[r], "success", FALSE)
              /\ Has(result[r], "stage", "unknown")
              /\ "error" \in DOMAIN result[r]
              /\ Head(result[r].error) = "Processing failed:"

C12_Witness ==
    \E r \in Runs :
        /\ pc[r] = "done"
        /\ Failed(r, "assemble")
        /\ Has(result[r], "stage", "unknown")

(***************************************************************************)
(* C13: the fallback_used flag of the final record (and of the persisted   *)
(* bill row) is true whenever any stage of the run was answered by the     *)
(* fallback; in particular when the primary answered the extraction and    *)
(* the fallback answered the summary.                                      *)
(***************************************************************************)
Success(r) == pc[r] = "done" /\ Has(result[r], "success", TRUE)

RowOf(r) == bills[bill_id[r]]

C13_AnyStageFallback ==
    \A r \in Runs :
        (Success(r) /\ (Succeeded(r, "vision_fallback")
                            \/ Succeeded(r, "text_fallback")))
        => /\ result[r].data.bill_metadata.fallback_used
           /\ result[r].data.metadata.fallback_used
           /\ RowOf(r).fallback_used

(***************************************************************************)
(* C14: when the primary fails the extraction call, the fallback answers   *)
(* it and the rest of the run succeeds, the final record has               *)
(* fallback_used = true and model_used = the fallback's name in both       *)
(* bill_metadata and metadata, and save_bill stored the same two values.   *)
(***************************************************************************)
C14_ExtractionFallback ==
    \A r \in Runs :
        (Success(r) /\ Failed(r, "vision_primary")
                    /\ Succeeded(r, "vision_fallback"))
        => LET rec == result[r].data IN
           /\ rec.bill_metadata.fallback_used
           /\ rec.metadata.fallback_used
           /\ mgr.fallback_model_name = FALLBACK_VISION_MODEL
           /\ rec.bill_metadata.model_used = mgr.fallback_model_name
           /\ rec.metadata.model_used = mgr.fallback_model_name
           /\ RowOf(r).fallback_used
           /\ RowOf(r).model_used = mgr.fallback_model_name
           /\ RowOf(r).image_path = image[r].path

C14_Witness ==
    \E r \in Runs :
        /\ Success(r)
        /\ Failed(r, "vision_primary")
        /\ Head(Output(r, "vision_primary")) = "Authentication failed with"
        /\ Succeeded(r, "vision_fallback")
        /\ result[r].data.metadata.model_used = FALLBACK_VISION_MODEL
        /\ RowOf(r).fallback_used

(***************************************************************************)
(* The extractor on wrapped documents.  A second specification starts a    *)
(* run where the Vision call has just returned a reply made of a valid     *)
(* JSON document wrapped in fences and prose, and lets                     *)
(* _extract_bill_data_with_vlm apply extract_json_from_response to it.     *)
(***************************************************************************)
MaxProse == 2

Docs ==
    { <<"{", "M", "}">>, <<"{", "M", " ", "Q90", "I1", "}">>, <<"{", "}">>, <<"7">> }

\* Sequences over toks of length at most n.
SeqsUpTo(toks, n) == UNION {[1..k -> toks] : k \in 0..n}

\* Prose tokens: words and blanks, without and with braces.  No prose holds
\* a fence marker.
PlainProse == {"x", " "}

BraceProse == {"x", " ", "{"}

Pad == {<<>>, <<" ">>}

Tagged == <<"fence", "json">>

Untagged == <<"fence">>

OtherTagged == <<"fence", "py">>

Fenced(D, open) == {open \o p1 \o D \o p2 \o <<"fence">> : p1 \in Pad, p2 \in Pad}

\* The document alone or in one of the three kinds of fence.
Bodies(D) ==
    {D} \cup Fenced(D, Tagged) \cup Fenced(D, Untagged) \cup Fenced(D, OtherTagged)

InProse(body, prose) ==
    {pre \o body \o post : pre \in SeqsUpTo(prose, MaxProse),
                           post \in SeqsUpTo(prose, MaxProse)}

\* Every reply the extractor is given: a document, fenced or not, in prose.
Wrapped(D) == UNION {InProse(body, BraceProse) : body \in Bodies(D)}

\* T is body with at most MaxProse tokens of prose before and after it.
Around(T, body, prose) ==
    \E a \in 0..MaxProse :
        LET b == Len(T) - Len(body) - a IN
        /\ b \in 0..MaxProse
        /\ SubSeq(T, a + 1, a + Len(body)) = body
        /\ \A i \in (1..a) \cup ((Len(T) - b + 1)..Len(T)) : T[i] \in prose

\* T is formed from D by one of the wrappings C15 names.
FormedFrom(T, D) == \E body \in Bodies(D) : Around(T, body, BraceProse)

\* The wrappings the extractor undoes: a fence tagged json or not tagged at
\* all, inside any prose; or a bare object inside prose that holds no brace.
WellFormedFrom(T, D) ==
    \/ \E body \in Fenced(D, Tagged) \cup Fenced(D, Untagged) :
          Around(T, body, BraceProse)
    \/ Head(D) = "{" /\ Around(T, D, PlainProse)
    \/ T = D

\* Replies that hold several markers: up to MaxParts of these parts in a row.
MaxParts == 2

Parts ==
    { <<"fence", "json", " ", "{", "M", "}", " ", "fence">>,
      <<"fence", "json", "{", "Q90", "}", "fence">>,
      <<"fence", "json", "x", "fence">>,
      <<"fence", "{", "I1", "}", "fence">>,
      <<"fence", "x", "fence">>,
      <<"{", "I0", "}">>,
      <<"{", "M", "}">>,
      <<"fence", "json">>,
      <<"fence">>,
      <<"{">>, <<"}">>, <<"x">>, <<" ">>, <<"7">> }

RECURSIVE Concat(_)
Concat(ss) == IF ss = <<>> THEN <<>> ELSE Head(ss) \o Concat(Tail(ss))

MixedTexts == {Concat(ps) : ps \in UNION {[1..k -> Parts] : k \in 1..MaxParts}}

\* The Vision call of run 1 has returned the reply T.
ReplyGiven(T) ==
    /\ mres = [r \in Runs |-> IF r = 1
                              THEN analyze_primary_success(mgr, T, 1)
                              ELSE EmptyDict]
    /\ trace = [r \in Runs |-> IF r = 1
                  THEN << [ev |-> "prepare", ok |-> TRUE, out |-> <<>>],
                          [ev |-> "vision_primary", ok |-> TRUE, out |-> T] >>
                  ELSE <<>>]

InitExtract ==
    /\ env = [name \in {"OPENROUTER_API_KEY", "GROQ_API_KEY"} |-> "sk-key"]
    /\ args = [primary_model |-> DEFAULT_VISION_MODEL,
               fallback_model |-> FALLBACK_VISION_MODEL]
    /\ mgr = ModelManager_init(args, env)
    /\ bills = <<>>
    /\ expenses = <<>>
    /\ image = [r \in Runs |-> CHOOSE img \in Images : img.path = "receipt.jpg"]
    /\ pc = [r \in Runs |-> IF r = 1 THEN "vision_returned" ELSE "idle"]
    /\ primary_error = [r \in Runs |-> <<>>]
    /\ \/ \E D \in Docs : \E T \in Wrapped(D) : ReplyGiven(T)
       \/ \E T \in MixedTexts : ReplyGiven(T)
    /\ extraction_result = [r \in Runs |-> EmptyDict]
    /\ summary_result = [r \in Runs |-> EmptyDict]
    /\ bill_id = [r \in Runs |-> 0]
    /\ result = [r \in Runs |-> EmptyDict]

NextExtract == \E r \in Runs : ExtractionReturn(r)

SpecExtract == InitExtract /\ [][NextExtract]_vars

\* The extraction step of run r has been taken on the reply of the manager.
Extracted(r) ==
    /\ pc[r] \notin {"idle", "received", "vision_primary", "vision_fallback",
                     "vision_returned"}
    /\ "response" \in DOMAIN mres[r]

\* The extraction step of run r produced the object json.loads gives for D.
Recovered(r, D) ==
    /\ Has(extraction_result[r], "success", TRUE)
    /\ extraction_result[r].data = PyValue(json_loads(D))

Parsed(r) ==
    /\ Has(mres[r], "success", TRUE)
    /\ pc[r] \notin {"vision_returned", "text_returned"}

C16_OneErrorKind ==
    \A r \in Runs :
        (Parsed(r) /\ extract_json_from_response(mres[r].response).status # "ok")
        => /\ extract_json_from_response(mres[r].response) = JSONDecodeError
           /\ pc[r] = "done"
           /\ "error" \in DOMAIN result[r]
           /\ Head(result[r].error) \in {"Failed to parse VLM response:",
                                         "Failed to parse summary:"}

(***************************************************************************)
(* C17: every bill that leaves the extraction stage has all its confidence *)
(* values between 0 and 1 (0 and 100 hundredths) and every line item has a *)
(* category of EXPENSE_CATEGORIES; a category outside the set or missing   *)
(* has been replaced by "uncategorized".                                   *)
(***************************************************************************)
ValidConfidence(c) == c \in 0..100

ValidItem(item) ==
    /\ "category" \in DOMAIN item
    /\ item.category \in EXPENSE_CATEGORIES
    /\ "confidence" \in DOMAIN item => ValidConfidence(item.confidence)

ValidBill(bill_data) ==
    /\ "confidence_score" \in DOMAIN quality_assessment(bill_data)
          => ValidConfidence(quality_assessment(bill_data).confidence_score)
    /\ \A i \in DOMAIN Get(bill_data, "line_items", <<>>) :
          ValidItem(bill_data.line_items[i])

C17_ValidatedBill ==
    \A r \in Runs :
        (Has(extraction_result[r], "success", TRUE)
            /\ extraction_result[r].data.type = "dict")
        => ValidBill(extraction_result[r].data.value)

(***************************************************************************)
(* C18: on a successful run the record combines the results of the         *)
(* stages: bill_metadata.merchant_name is the extracted merchant, expenses *)
(* are the extracted line items, metadata.total_items is their number,     *)
(* summary is the summary object of the summary call, and                  *)
(* bill_metadata.bill_id is the id save_bill assigned, which is also the   *)
(* bill_id returned beside the record.                                     *)
(***************************************************************************)
C18_RecordCombines ==
    \A r \in Runs :
        Success(r)
        => LET rec == result[r].data
               bill_data == extraction_result[r].data.value
               summary_data == summary_result[r].data.value
           IN  /\ "merchant_name" \in DOMAIN bill_data
                     => rec.bill_metadata.merchant_name = bill_data.merchant_name
               /\ rec.expenses = Get(bill_data, "line_items", <<>>)
               /\ rec.metadata.total_items = Len(Get(bill_data, "line_items", <<>>))
               /\ "summary" \in DOMAIN summary_data
                     => rec.summary = summary_data.summary
               /\ bill_id[r] \in DOMAIN bills
               /\ RowOf(r).bill_id = bill_id[r]
               /\ RowOf(r).image_path = image[r].path
               /\ rec.bill_metadata.bill_id = bill_id[r]
               /\ result[r].bill_id = bill_id[r]

C18_Witness ==
    \E r \in Runs :
        /\ Success(r)
        /\ result[r].data.bill_metadata.merchant_name = "Acme"
        /\ result[r].data.expenses = <<Milk, Taxi>>
        /\ result[r].data.metadata.total_items = 2
        /\ result[r].data.summary = FieldVal("S")
        /\ result[r].data.bill_metadata.bill_id = 2
        /\ result[r].bill_id = 2

(***************************************************************************)
(* C19: the classification of the primary's error never gates the          *)
(* fallback.  Whatever the primary's failure (unauthorized, not found,     *)
(* rate limited, unknown), in the Vision and in the Text call, the manager *)
(* attempts the fallback whenever it has one: the failed primary attempt   *)
(* is followed by the fallback attempt of the same call.                   *)
(***************************************************************************)
FallbackOf(ev) == IF ev = "vision_primary" THEN "vision_fallback" ELSE "text_fallback"

C19_FallbackUngated ==
    \A r \in Runs : \A i \in DOMAIN trace[r] :
        (/\ trace[r][i].ev \in {"vision_primary", "text_primary"}
         /\ ~trace[r][i].ok
         /\ fallback_available(mgr))
        => IF i = Len(trace[r])
           THEN pc[r] = FallbackOf(trace[r][i].ev)
           ELSE trace[r][i + 1].ev = FallbackOf(trace[r][i].ev)

C19_Witness ==
    \E r \in Runs :
        /\ Failed(r, "vision_primary")
        /\ Head(Output(r, "vision_primary")) = "Rate limit exceeded on"
        /\ Succeeded(r, "vision_fallback")
        /\ Failed(r, "text_primary")
        /\ Output(r, "text_primary")[3] = "401 unauthorized"
        /\ Happened(r, "text_fallback")

(***************************************************************************)
(* C20: a missing credential is fatal at construction and never surfaces   *)
(* per call.  A VLMProvider whose credential variable is not set or empty  *)
(* is not constructed, and a ModelManager whose primary lacks its          *)
(* credential is not constructed either: no manager exists whose primary   *)
(* (or whose fallback client) has no credential, and without a manager no  *)
(* step of a run, hence no provider call, is ever taken.                   *)
(***************************************************************************)
HasCredential(model) ==
    /\ MODEL_PROVIDERS[model].api_key_env \in DOMAIN env
    /\ env[MODEL_PROVIDERS[model].api_key_env] # ""

C20_CredentialAtConstruction ==
    /\ mgr.built = "yes" => HasCredential(args.primary_model)
    /\ (mgr.built # "no" /\ ~HasCredential(args.primary_model))
          => mgr.built = "failed"
    /\ fallback_available(mgr) => HasCredential(args.fallback_model)
    /\ mgr.built # "yes" =>
          \A r \in Runs : trace[r] = <<>> /\ pc[r] \in {"idle", "received"}

C20_Witness ==
    /\ mgr.built = "failed"
    /\ Has(env, "OPENROUTER_API_KEY", "")
    /\ \A r \in Runs : trace[r] = <<>>

\* Every reply of the second specification is formed from one of the
\* documents or is one of the mixed texts.
ExtractInputsFormed ==
    \A r \in Runs :
        pc[r] = "vision_returned"
        => \/ \E D \in Docs : FormedFrom(mres[r].response, D)
           \/ mres[r].response \in MixedTexts

(***************************************************************************)
(* C23: persistence is all-or-nothing with respect to the outcome of the   *)
(* run: whenever process_bill returns success = false the run has          *)
(* committed no bill row, also when save_expenses or the assembly of the   *)
(* record fails after save_bill has returned.                              *)
(***************************************************************************)
C23_AllOrNothing ==
    \A r \in Runs :
        (pc[r] = "done" /\ Has(result[r], "success", FALSE))
        => /\ ~Succeeded(r, "save_bill")
           /\ bill_id[r] \notin DOMAIN bills

(***************************************************************************)
(* C24: in every run save_bill is called at most once and only after the   *)
(* extraction succeeded, the quality gate passed and the summary           *)
(* succeeded; save_expenses is called at most once, only after save_bill   *)
(* returned, only with the bill id save_bill returned in that run, and     *)
(* only when the extracted list of line items is not empty.                *)
(***************************************************************************)
\* Event ev of run r happened, and event before happened earlier and succeeded.
After(r, ev, before) ==
    \A i \in Events(r, ev) : \E j \in Events(r, before) : j < i /\ trace[r][j].ok

C24_SaveDiscipline ==
    /\ \A r \in Runs :
           /\ Cardinality(Events(r, "save_bill")) <= 1
           /\ Cardinality(Events(r, "save_expenses")) <= 1
           /\ Happened(r, "save_bill") =>
                 /\ Has(extraction_result[r], "success", TRUE)
                 /\ After(r, "save_bill", "quality_gate")
                 /\ \/ After(r, "save_bill", "text_primary")
                    \/ After(r, "save_bill", "text_fallback")
                 /\ Has(summary_result[r], "success", TRUE)
           /\ Happened(r, "save_expenses") =>
                 /\ After(r, "save_expenses", "save_bill")
                 /\ Get(extraction_result[r].data.value, "line_items", <<>>) # <<>>
           /\ Succeeded(r, "save_expenses") =>
                 LET items == extraction_result[r].data.value.line_items IN
                 /\ RowOf(r).bill_id = bill_id[r]
                 /\ SelectSeq(expenses, LAMBDA e : e.bill_id = bill_id[r])
                       = [i \in 1..Len(items) |-> expense_row(bill_id[r], items[i])]
    /\ \A i \in DOMAIN expenses :
          \E r \in Runs : /\ Succeeded(r, "save_expenses")
                          /\ expenses[i].bill_id = bill_id[r]

C24_Witness ==
    \E r \in Runs :
        /\ Succeeded(r, "save_bill")
        /\ Succeeded(r, "save_expenses")
        /\ bill_id[r] = 2
        /\ Len(expenses) = 2
        /\ expenses[2].bill_id = 2

(***************************************************************************)
(* C25: when a fallback model is named but its provider fails to           *)
(* initialise (its credential is missing), the construction of the         *)
(* ModelManager still succeeds and the manager behaves in every call as if *)
(* no fallback were configured: when the primary fails the fallback is     *)
(* never invoked and the result has success = false with the primary's     *)
(* error only.                                                             *)
(***************************************************************************)
FallbackUninitialised ==
    /\ mgr.built # "no"
    /\ HasCredential(args.primary_model)
    /\ args.fallback_model # None
    /\ ~HasCredential(args.fallback_model)

C25_FallbackUninitialised ==
    FallbackUninitialised
    => /\ mgr.built = "yes"
       /\ mgr.fallback_model_name = args.fallback_model
       /\ \A r \in Runs :
             /\ ~Happened(r, "vision_fallback")
             /\ ~Happened(r, "text_fallback")
             /\ pc[r] \notin {"vision_fallback", "text_fallback"}
             /\ (Returned(r) /\ Failed(r, PrimaryEv(r)))
                   => /\ Has(mres[r], "success", FALSE)
                      /\ Has(mres[r], "error", Output(r, PrimaryEv(r)))
                      /\ ~Get(mres[r], "fallback_used", FALSE)

C25_Witness ==
    \E r \in Runs :
        /\ FallbackUninitialised
        /\ Has(env, "GROQ_API_KEY", "")
        /\ pc[r] = "text_returned"
        /\ Failed(r, "text_primary")
        /\ Has(mres[r], "success", FALSE)

(***************************************************************************)
(* C26: when the parsed extraction reply has no quality_assessment, or no  *)
(* confidence_score in it, the quality gate takes the confidence to be 0,  *)
(* so with the positive MIN_CONFIDENCE_SCORE the run is rejected with      *)
(* stage = "quality_check" and quality_score = 0, and neither the summary  *)
(* call nor a persistence call happens.                                    *)
(***************************************************************************)
\* The extraction of run r returned an object without a confidence score.
NoConfidence(r) ==
    /\ Has(extraction_result[r], "success", TRUE)
    /\ extraction_result[r].data.type = "dict"
    /\ LET bill_data == extraction_result[r].data.value IN
       \/ "quality_assessment" \notin DOMAIN bill_data
       \/ "confidence_score" \notin DOMAIN bill_data.quality_assessment

C26_MissingConfidence ==
    \A r \in Runs :
        (NoConfidence(r) /\ pc[r] # "quality_check")
        => /\ MIN_CONFIDENCE_SCORE > 0
           /\ pc[r] = "done"
           /\ Has(result[r], "success", FALSE)
           /\ Has(result[r], "stage", "quality_check")
           /\ Has(result[r], "quality_score", 0)
           /\ Failed(r, "quality_gate")
           /\ \A ev \in {"text_primary", "text_fallback", "save_bill",
                         "save_expenses", "assemble"} : ~Happened(r, ev)
           /\ bill_id[r] = 0

C26_Witness ==
    \E r \in Runs :
        /\ NoConfidence(r)
        /\ "quality_assessment" \in DOMAIN extraction_result[r].data.value
        /\ pc[r] = "done"
        /\ Has(result[r], "quality_score", 0)

(***************************************************************************)
(* C22: extract_json_from_response applies its strategies in a fixed order *)
(* and the first success wins: the whole text; else, if a json-tagged      *)
(* fence marker is present, only the interior of the first such fence;     *)
(* else, if any fence marker is present, only the interior of the first    *)
(* fence pair; else only the text from the first opening brace to the last *)
(* closing brace.  A later strategy is tried only when the marker of the   *)
(* earlier one is absent, and when the selected text does not parse the    *)
(* call fails.  (When the selected fence is never closed the selected text *)
(* is what follows the marker, or a part of it.)                           *)
(***************************************************************************)
TaggedAt(T) == {i \in 1..(Len(T) - 1) : T[i] = "fence" /\ T[i + 1] = "json"}

FenceAt(T) == {i \in 1..Len(T) : T[i] = "fence"}

Least(S) == CHOOSE i \in S : \A j \in S : i <= j

Greatest(S) == CHOOSE i \in S : \A j \in S : i >= j

\* What the extraction step of run r made of the reply: the parsed value,
\* or "failed" when the run ended there.
Outcome(r) ==
    IF Has(extraction_result[r], "success", TRUE)
    THEN extraction_result[r].data
    ELSE IF pc[r] = "done" /\ Has(result[r], "success", FALSE)
              /\ result[r].stage \in {"vlm_extraction", "unknown"}
         THEN [type |-> "failed"]
         ELSE [type |-> "none"]

\* The outcome json.loads of the selected text calls for.
Parse(text) ==
    IF json_loads(text).status = "ok" THEN PyValue(json_loads(text))
    ELSE [type |-> "failed"]

\* The interior of the fence whose marker ends at position open.
Interior(r, T, open) ==
    LET closing == {j \in FenceAt(T) : j > open} IN
    IF closing # {}
    THEN Outcome(r) = Parse(SubSeq(T, open + 1, Least(closing) - 1))
    ELSE \/ Outcome(r) = [type |-> "failed"]
         \/ \E k \in open..Len(T) : Outcome(r) = Parse(SubSeq(T, open + 1, k))

C22_StrategyOrder ==
    \A r \in Runs :
        Extracted(r)
        => LET T == mres[r].response IN
           IF json_loads(T).status = "ok"
           THEN Outcome(r) = Parse(T)
           ELSE IF TaggedAt(T) # {}
           THEN Interior(r, T, Least(TaggedAt(T)) + 1)
           ELSE IF FenceAt(T) # {}
           THEN Interior(r, T, Least(FenceAt(T)))
           ELSE LET opening == {i \in 1..Len(T) : T[i] = "{"}
                    closing == {i \in 1..Len(T) : T[i] = "}"}
                IN  IF opening # {} /\ closing # {}
                       /\ Greatest(closing) > Least(opening)
                    THEN Outcome(r) =
                            Parse(SubSeq(T, Least(opening), Greatest(closing)))
                    ELSE Outcome(r) = [type |-> "failed"]

\* An untagged fence with a valid object comes before the json-tagged fence:
\* the tagged one is parsed.
C22_Witness ==
    \E r \in Runs :
        /\ Extracted(r)
        /\ mres[r].response =
              <<"fence", "{", "I1", "}", "fence",
                "fence", "json", "{", "Q90", "}", "fence">>
        /\ Outcome(r) = Parse(<<"{", "Q90", "}">>)

(***************************************************************************)
(* Two concurrent runs.  A third specification starts two calls of         *)
(* process_bill on one BillProcessor (one ModelManager without a fallback, *)
(* one store) and interleaves their steps in every order.                  *)
(***************************************************************************)
Concurrent == {1, 2}

InitConcurrent ==
    /\ env = [name \in {"OPENROUTER_API_KEY"} |-> "sk-key"]
    /\ args = [primary_model |-> DEFAULT_VISION_MODEL, fallback_model |-> None]
    /\ mgr = [built |-> "no", primary_model_name |-> None,
              fallback_model_name |-> None, fallback |-> FALSE]
    /\ \E n \in 0..MaxPriorBills : bills = [i \in 1..n |-> PriorBill(i)]
    /\ expenses = <<>>
    /\ pc = [r \in Runs |-> IF r \in Concurrent THEN "received" ELSE "idle"]
    /\ image = [r \in Runs |->
                  CHOOSE img \in Images :
                      img.path = IF r = 1 THEN "receipt.jpg" ELSE "receipt.pdf"]
    /\ primary_error = [r \in Runs |-> <<>>]
    /\ mres = [r \in Runs |-> EmptyDict]
    /\ extraction_result = [r \in Runs |-> EmptyDict]
    /\ summary_result = [r \in Runs |-> EmptyDict]
    /\ bill_id = [r \in Runs |-> 0]
    /\ result = [r \in Runs |-> EmptyDict]
    /\ trace = [r \in Runs |-> <<>>]

NextConcurrent ==
    \/ Construct
    \/ \E r \in Runs :
         \/ PrepareImage(r)
         \/ AnalyzePrimary(r)
         \/ ExtractionReturn(r)
         \/ QualityGate(r)
         \/ GeneratePrimary(r)
         \/ SummaryReturn(r)
         \/ SaveBill(r)
         \/ SaveExpenses(r)
         \/ Assemble(r)

SpecConcurrent == InitConcurrent /\ [][NextConcurrent]_vars

(***************************************************************************)
(* C21: concurrent runs of process_bill are independent.  Under every      *)
(* interleaving of the steps of two runs each run's result depends only on *)
(* its own image and provider responses (and the outcome of its own store  *)
(* calls), the only state the runs share is the store, each run that saved *)
(* a bill has a bill id of its own, and each run's save_expenses stores    *)
(* the items under the id assigned to that same run.                       *)
(***************************************************************************)
\* The variables a run keeps for itself.
Locals(r) ==
    <<pc[r], image[r], primary_error[r], mres[r], extraction_result[r],
      summary_result[r], bill_id[r], result[r], trace[r]>>

StageFailure(error, stage) == [success |-> FALSE, error |-> error, stage |-> stage]

\* What json.loads made of the reply the provider gave in event ev of run r.
ReplyOf(r, ev) == extract_json_from_response(Output(r, ev))

\* The result of a finished run, from its own image, the replies and errors
\* of its own provider calls, the outcome of its own store calls and its own
\* bill id.  (The manager of this specification has no fallback.)
OwnResult(r) ==
    IF Failed(r, "prepare")
    THEN except_Exception(prepare_image_for_vlm(image[r]).error)
    ELSE IF Failed(r, "vision_primary")
    THEN StageFailure(Output(r, "vision_primary"), "vlm_extraction")
    ELSE IF ~Happened(r, "quality_gate")
    THEN IF ReplyOf(r, "vision_primary") = JSONDecodeError
         THEN StageFailure(<<"Failed to parse VLM response:">>, "vlm_extraction")
         ELSE except_Exception(NoJSONFound)
    ELSE IF Failed(r, "quality_gate")
    THEN IF ReplyOf(r, "vision_primary").type # "dict"
         THEN except_Exception(AttributeError)
         ELSE quality_rejection(ReplyOf(r, "vision_primary").value)
    ELSE IF Failed(r, "text_primary")
    THEN StageFailure(Output(r, "text_primary"), "summary_generation")
    ELSE IF ~Happened(r, "save_bill")
    THEN IF ReplyOf(r, "text_primary") = JSONDecodeError
         THEN StageFailure(<<"Failed to parse summary:">>, "summary_generation")
         ELSE except_Exception(NoJSONFound)
    ELSE IF Failed(r, "save_bill") \/ Failed(r, "save_expenses")
    THEN except_Exception(DatabaseError)
    ELSE IF Failed(r, "assemble")
    THEN except_Exception(AttributeError)
    ELSE [success |-> TRUE,
          data |-> create_final_output(
                      ReplyOf(r, "vision_primary").value,
                      ReplyOf(r, "text_primary").value,
                      [model_used |-> DEFAULT_VISION_MODEL,
                       fallback_used |-> FALSE,
                       processing_time |-> 2,
                       bill_id |-> bill_id[r]]),
          bill_id |-> bill_id[r]]

C21_OwnState ==
    \A r \in Concurrent :
        /\ pc[r] = "done" => result[r] = OwnResult(r)
        /\ bill_id[r] # 0 =>
              /\ bill_id[r] \in DOMAIN bills
              /\ RowOf(r).bill_id = bill_id[r]
              /\ RowOf(r).image_path = image[r].path
              /\ \A s \in Concurrent \ {r} : bill_id[s] # bill_id[r]
        /\ Succeeded(r, "save_expenses") =>
              LET items == ReplyOf(r, "vision_primary").value.line_items IN
              SelectSeq(expenses, LAMBDA e : e.bill_id = bill_id[r])
                 = [i \in 1..Len(items) |-> expense_row(bill_id[r], items[i])]

\* A step changes what at most one run keeps for itself, and nothing of the
\* manager once it is built.
C21_OwnStep ==
    /\ \A r \in Concurrent : \A s \in Concurrent \ {r} :
          Locals(r)' = Locals(r) \/ Locals(s)' = Locals(s)
    /\ mgr.built # "no" => UNCHANGED <<env, args, mgr>>

====
